---- MODULE Spec2Model ----
(***************************************************************************)
(* Model of day1_homework.py: a pool of 4 worker processes, each running   *)
(* complete device tasks (process_target) submitted by main; a device task *)
(* opens a Netmiko session, derives the backup path, writes the backup,    *)
(* runs the CDP, IOS and NTP probes, closes the session and prints one     *)
(* line.                                                                   *)
(*                                                                         *)
(* Python values are tagged records (PyStr, PyFalse, ...) so that the str  *)
(* concatenation of line 237 can tell a str from a bool.  Text is a        *)
(* sequence of atoms: a word, a punctuation mark such as "!" or ", ", a    *)
(* blank " " or a newline.  A substring test of the code is a contiguous   *)
(* sub-sequence test on atoms.                                             *)
(***************************************************************************)
EXTENDS Integers, Sequences, FiniteSets, TLC

\* ------------------------------------------------------------ constants
\* mp.Pool(4), line 256
POOL_SIZE == 4
\* most rows of devices.csv
NumDevices == 5
\* most rows of a devices.csv that names a hostname twice
NumDuplicated == 2
\* most device tasks of one run in which a call fails
MaxFaults == 1
\* most neighbours a device reports in the replies drawn for check_cdp
MaxPeers == 3
\* most calls of get_backup_file_path made one after the other
MaxCalls == 3
\* most hostnames those calls are made with
NumHostnames == 2

BACKUP_DIR_PATH == "CONFIGURATIONS"
NTP_SERVER == "192.168.1.1"

NL == "\n"
Whitespace == {" ", NL}

\* ------------------------------------------------------------ Python values
PyStr(s) == [type |-> "str", val |-> s]
PyFalse == [type |-> "bool", val |-> <<"False">>]
PyTrue == [type |-> "bool", val |-> <<"True">>]
PyNone == [type |-> "NoneType", val |-> <<"None">>]

\* a + b on Python values: str + str concatenates, str + bool raises TypeError
PyAdd(a, b) ==
  IF a.type = "str" /\ b.type = "str" THEN PyStr(a.val \o b.val)
  ELSE [type |-> "TypeError", val |-> <<>>]

\* ------------------------------------------------------------ str methods
\* sub in s
Contains(s, sub) ==
  \E i \in 1..(Len(s) - Len(sub) + 1) : SubSeq(s, i, i + Len(sub) - 1) = sub

RECURSIVE LStrip(_)
LStrip(s) ==
  IF s # <<>> /\ Head(s) \in Whitespace THEN LStrip(Tail(s)) ELSE s

RECURSIVE RStrip(_)
RStrip(s) ==
  IF s # <<>> /\ s[Len(s)] \in Whitespace THEN RStrip(SubSeq(s, 1, Len(s) - 1)) ELSE s

\* s.strip()
Strip(s) == RStrip(LStrip(s))

\* s.split(sep) for a one-atom separator: the fields between the separators,
\* empty fields included, so that "".split(sep) is [""]
RECURSIVE SplitOn(_, _)
SplitOn(s, sep) ==
  IF \A i \in 1..Len(s) : s[i] # sep THEN <<s>>
  ELSE LET k == CHOOSE i \in 1..Len(s) : s[i] = sep /\ \A j \in 1..(i - 1) : s[j] # sep
       IN <<SubSeq(s, 1, k - 1)>> \o SplitOn(SubSeq(s, k + 1, Len(s)), sep)

\* s.split(): the maximal runs of non-blank atoms, no empty word
RECURSIVE Words(_)
Words(s) ==
  IF s = <<>> THEN <<>>
  ELSE IF Head(s) \in Whitespace THEN Words(Tail(s))
  ELSE LET ends == {i \in 1..Len(s) : \A j \in 1..i : s[j] \notin Whitespace}
           n == CHOOSE i \in ends : \A j \in ends : j <= i
       IN <<SubSeq(s, 1, n)>> \o Words(SubSeq(s, n + 1, Len(s)))

\* Mutant of CountRows: every row counts, marked or not.
CountAllRows(rows, marker) == Len(rows)

\* number of rows of rows that contain marker
RECURSIVE CountRows(_, _)
CountRows(rows, marker) ==
  IF rows = <<>> THEN 0
  ELSE (IF Contains(Head(rows), marker) THEN 1 ELSE 0) + CountRows(Tail(rows), marker)

\* ------------------------------------------------------------ exceptions
\* The names bound at module level (imports of lines 5-13, the assignments of
\* lines 17-21 and the defs).  No line binds the name Error, and it is no
\* builtin either.
ModuleNames ==
  {"ConnectHandler", "csv", "logging", "datetime", "mp", "difflib", "filecmp", "sys",
   "os", "DEVICE_FILE_PATH", "BACKUP_DIR_PATH", "NTP_SERVER", "enable_logging",
   "get_devices_from_file", "get_current_date_and_time", "connect_to_device",
   "disconnect_from_device", "get_backup_file_path", "create_backup", "check_cdp",
   "check_ios", "check_ntp", "process_target", "main"}

Returned(ops, v) == [exc |-> "none", ret |-> v, ops |-> ops]
Raised(ops, e) == [exc |-> e, ret |-> PyNone, ops |-> ops]

\* try: body / except Error: return False  (lines 132, 157, 180, 208).
\* When the body raises, Python evaluates the expression after "except" to
\* match the exception against it; an unbound name raises NameError there,
\* and that NameError leaves the function.
ExceptError(body) ==
  IF body.exc = "none" THEN body
  ELSE IF "Error" \in ModuleNames THEN Returned(body.ops, PyFalse)
  ELSE Raised(body.ops, "NameError")

\* ------------------------------------------------------------ the session
\* Mutant of Enable: the functions ask for the prompt, not for privilege.
EnableSkipped == [op |-> "find_prompt", arg |-> <<>>]

\* One call on the Netmiko connection.
Call(op, arg) == [op |-> op, arg |-> arg]

Enable == Call("enable", <<>>)
ShowRun == Call("send_command", <<"show running-config all">>)
ShowCdp == Call("send_command", <<"show cdp">>)
ShowCdpEntry == Call("send_command", <<"show cdp entry *">>)
ShowVersion == Call("send_command", <<"show version | i Cisco IOS Software">>)
ShowMemory == Call("send_command", <<"show version | i of memory.">>)
ClockTimezone == Call("send_config_set", <<"clock timezone GMT 0 0">>)
\* "ping {}".format(NTP_SERVER), "ntp server {}".format(NTP_SERVER)
Ping == Call("send_command", <<"ping ", NTP_SERVER>>)
NtpServer == Call("send_config_set", <<"ntp server ", NTP_SERVER>>)
ShowNtpStatus == Call("send_command", <<"show ntp status">>)

Commands ==
  {c.arg : c \in {ShowRun, ShowCdp, ShowCdpEntry, ShowVersion, ShowMemory, Ping, ShowNtpStatus}}

\* What the device does during one function call: b.failAt is the index of
\* the session call that raises (0 or beyond the last call: none does),
\* b.reply the text each command returns, b.io the fate of the file write.
\* Run(fn, calls, b) is the record of the session calls made when the function
\* would issue calls in this order: the calls up to the failing one.
Entry(fn, c, ok, b) ==
  [fn |-> fn, op |-> c.op, arg |-> c.arg, ok |-> ok,
   out |-> IF ok /\ c.op = "send_command" THEN b.reply[c.arg] ELSE <<>>]

Fails(calls, b) == b.failAt \in 1..Len(calls)

Run(fn, calls, b) ==
  LET n == IF Fails(calls, b) THEN b.failAt ELSE Len(calls)
  IN [i \in 1..n |-> Entry(fn, calls[i], ~(Fails(calls, b) /\ i = n), b)]

\* ------------------------------------------------------------ create_backup
\* A call on the backup file, as the log records it.
FileCall(op, backup_file_path, ok) ==
  [fn |-> "create_backup", op |-> op, arg |-> backup_file_path, ok |-> ok, out |-> <<>>]

\* What a file holds after new is written from its start through a
\* descriptor of its own: new, then what the file held beyond the length of
\* new.
Overlay(new, old) == new \o SubSeq(old, Len(new) + 1, Len(old))

\* lines 117-123: enable, the show command, and open(path, 'w'), which
\* creates the file or truncates it and gives a descriptor at offset 0.  The
\* result carries the files after the statement and the local output; ret
\* is None while the function is inside its with block.
create_backup_open(b, backup_file_path, files) ==
  LET calls == <<Enable, ShowRun>>
      sent == Run("create_backup", calls, b)
      body ==
        IF Fails(calls, b) THEN Raised(sent, "ReadTimeout")
        ELSE IF b.io = "open_fails"
          THEN Raised(sent \o <<FileCall("open", backup_file_path, FALSE)>>, "OSError")
        ELSE Returned(sent \o <<FileCall("open", backup_file_path, TRUE)>>, PyNone)
  IN [r |-> ExceptError(body),
      output |-> IF Fails(calls, b) THEN <<>> ELSE b.reply[ShowRun.arg],
      files |-> IF body.exc = "none" THEN (backup_file_path :> <<>>) @@ files ELSE files]

\* lines 124-135: file.write(output) and the close that leaves the with
\* block, which hands the buffered text to the file at the descriptor's
\* offset, then return True.
create_backup_write(b, backup_file_path, files, output) ==
  LET held == IF backup_file_path \in DOMAIN files THEN files[backup_file_path] ELSE <<>>
      body ==
        IF b.io = "write_fails"
        THEN Raised(<<FileCall("write", backup_file_path, FALSE)>>, "OSError")
        ELSE Returned(<<FileCall("write", backup_file_path, TRUE)>>, PyTrue)
  IN [r |-> ExceptError(body),
      files |-> IF body.exc = "none"
                THEN (backup_file_path :> Overlay(output, held)) @@ files ELSE files]

\* ------------------------------------------------------------ check_cdp
NotEnabled == <<"not", " ", "enabled">>
DeviceId == <<"Device ID:", " ">>

\* lines 137-160
check_cdp(b) ==
  LET output == b.reply[ShowCdp.arg]
      off == Contains(output, NotEnabled)
      calls == <<Enable, ShowCdp>> \o (IF off THEN <<>> ELSE <<ShowCdpEntry>>)
      nbrcnt == CountRows(SplitOn(b.reply[ShowCdpEntry.arg], NL), DeviceId)
      body ==
        IF Fails(calls, b) THEN Raised(Run("check_cdp", calls, b), "ReadTimeout")
        ELSE IF off THEN Returned(Run("check_cdp", calls, b), PyStr(<<"CDP OFF, 0 peers">>))
        ELSE Returned(Run("check_cdp", calls, b),
                      PyStr(<<"CDP ON, ", ToString(nbrcnt), " peers">>))
  IN ExceptError(body)

\* ------------------------------------------------------------ check_ios
\* The atoms whose upper-case form contains "NPE".
NpeWords == {"(C2900-UNIVERSALK9_NPE-M)", "(c2900-universalk9_npe-m)"}

\* lines 162-183.  fields is output.strip().split(', '); Python's [1] is
\* fields[2] here.  An index past the end raises IndexError inside the try.
check_ios(b) ==
  LET fields == SplitOn(Strip(b.reply[ShowVersion.arg]), ", ")
      parsed1 == /\ Len(fields) >= 3
                 /\ Len(Words(fields[2])) >= 1
                 /\ Len(Words(fields[3])) >= 2
      w2 == Words(fields[2])
      Type == w2[1]
      last == w2[Len(w2)]
      Payload == IF \E i \in 1..Len(last) : last[i] \in NpeWords
                 THEN <<"NPE">> ELSE <<"PE">>
      IOSVersion == Words(fields[3])[2]
      mem == Words(Strip(b.reply[ShowMemory.arg]))
      Model == mem[2]
      c2 == <<Enable, ShowVersion>>
      c3 == <<Enable, ShowVersion, ShowMemory>>
      body ==
        IF Fails(c2, b) THEN Raised(Run("check_ios", c2, b), "ReadTimeout")
        ELSE IF ~parsed1 THEN Raised(Run("check_ios", c2, b), "IndexError")
        ELSE IF Fails(c3, b) THEN Raised(Run("check_ios", c3, b), "ReadTimeout")
        ELSE IF Len(mem) < 2 THEN Raised(Run("check_ios", c3, b), "IndexError")
        ELSE Returned(Run("check_ios", c3, b),
                      PyStr(Type \o <<" ">> \o Model \o <<"|">> \o IOSVersion \o <<"|">> \o Payload))
  IN ExceptError(body)

\* ------------------------------------------------------------ check_ntp
ClockSynchronized == <<"Clock", " ", "is", " ", "synchronized">>

\* Mutant of ntp_after_ping: the NTP server is configured whatever the ping
\* returned.
ntp_after_ping_unguarded(pingable) == <<NtpServer, ShowNtpStatus>>

\* Mutant of ntp_after_ping: the return of lines 198-199 is live, an
\* unreachable server ends the probe before the status query.
ntp_after_ping_early_return(pingable) ==
  IF pingable THEN <<NtpServer, ShowNtpStatus>> ELSE <<>>

\* lines 195-201: the calls that follow the ping, given whether "!" is in
\* its output
ntp_after_ping(pingable) ==
  (IF pingable THEN <<NtpServer>> ELSE <<>>) \o <<ShowNtpStatus>>

\* lines 185-211
check_ntp(b) ==
  LET ping_ntp == b.reply[Ping.arg]
      calls == <<Enable, ClockTimezone, Ping>>
                 \o ntp_after_ping(Contains(Strip(ping_ntp), <<"!">>))
      output == b.reply[ShowNtpStatus.arg]
      body ==
        IF Fails(calls, b) THEN Raised(Run("check_ntp", calls, b), "ReadTimeout")
        ELSE IF Contains(Strip(output), ClockSynchronized)
          THEN Returned(Run("check_ntp", calls, b), PyStr(<<"NTP in Sync">>))
        ELSE Returned(Run("check_ntp", calls, b), PyStr(<<"NTP not Sync">>))
  IN ExceptError(body)

\* ------------------------------------------------------------ inventory
\* A row of devices.csv, as csv.DictReader returns it (lines 39-44): the
\* fields the model reads.
Device(d, h) == [hostname |-> h, ip |-> <<"10.0.0.", ToString(d)>>]

\* The inventories a run is started with: n rows, every hostname different,
\* or the first two rows with the same hostname.
UniqueInventory(n) == [d \in 1..n |-> Device(d, <<"R", ToString(d)>>)]
DuplicateInventory(n) ==
  [d \in 1..n |-> Device(d, <<"R", ToString(IF d = 2 THEN 1 ELSE d)>>)]
Inventories ==
  {UniqueInventory(n) : n \in 1..NumDevices}
    \cup {DuplicateInventory(n) : n \in 2..NumDuplicated}

\* now.strftime("%Y%m%d"), line 63
Timestamps == {<<"20261101">>}

\* os.path.join
PathJoin(a, b) == a \o <<"/">> \o b

RootDir == <<BACKUP_DIR_PATH>>
HostDir(hostname) == PathJoin(RootDir, hostname)
\* Mutant of BackupFilePath: the file is put in the backup root, not in the
\* directory of its hostname.
BackupFilePathFlat(hostname, ts) ==
  PathJoin(RootDir, hostname \o <<"-">> \o ts \o <<".txt">>)

\* line 105
BackupFilePath(hostname, ts) ==
  PathJoin(HostDir(hostname), hostname \o <<"-">> \o ts \o <<".txt">>)

\* ------------------------------------------------------------ replies
CdpEnabledText == <<"Global", " ", "CDP", " ", "information:">>
CdpDisabledText == <<"%", " ", "CDP", " ", "is", " ", "not", " ", "enabled">>

RECURSIVE CdpEntries(_)
CdpEntries(k) ==
  IF k = 0 THEN <<"Total", " ", "cdp", " ", "entries">>
  ELSE <<"Device ID:", " ", "SW", NL, "Platform:", " ", "cisco", NL>> \o CdpEntries(k - 1)

VersionPE ==
  <<"Cisco", " ", "IOS", " ", "Software", ", ", "C2900", " ", "Software", " ",
    "(C2900-UNIVERSALK9-M)", ", ", "Version", " ", "15.1(4)M4", ", ",
    "RELEASE", " ", "SOFTWARE", NL>>
VersionNPE ==
  <<"Cisco", " ", "IOS", " ", "Software", ", ", "C2900", " ", "Software", " ",
    "(C2900-UNIVERSALK9_NPE-M)", ", ", "Version", " ", "15.1(4)M4", ", ",
    "RELEASE", " ", "SOFTWARE", NL>>
VersionOther == <<"Cisco", " ", "IOS", " ", "XE", " ", "Software">>
MemoryText == <<"cisco", " ", "2901", " ", "with", " ", "of", " ", "memory.">>
MemoryOther == <<>>

PingUp == <<"Sending", " ", "5", NL, "!", "!", "!", "!", "!", NL, "Success">>
PingPartial == <<"Sending", " ", "5", NL, ".", "!", "!", "!", "!", NL, "Success">>
PingDown == <<"Sending", " ", "5", NL, ".", ".", ".", ".", ".", NL, "Success">>
NtpSyncText == <<"Clock", " ", "is", " ", "synchronized", ", ", "stratum", " ", "3">>
NtpUnsyncText == <<"Clock", " ", "is", " ", "unsynchronized", ", ", "stratum", " ", "16">>

\* What a device answers to each command.
Reply(run, cdp, entry, ver, mem, ping, ntp) ==
  (ShowRun.arg :> run) @@ (ShowCdp.arg :> cdp) @@ (ShowCdpEntry.arg :> entry)
    @@ (ShowVersion.arg :> ver) @@ (ShowMemory.arg :> mem) @@ (Ping.arg :> ping)
    @@ (ShowNtpStatus.arg :> ntp)

\* The running configuration of a device: its hostname, its address, and its
\* interfaces, of which the device at an odd address has one and the device
\* at an even address two, so that configurations differ in length.
Interfaces(dev) ==
  IF dev.ip[2] \in {"1", "3", "5", "7", "9"} THEN <<NL, "interface", " ", "Gi0/0">>
  ELSE <<NL, "interface", " ", "Gi0/0", NL, "interface", " ", "Gi0/1">>
RunningConfig(dev) ==
  <<"hostname", " ">> \o dev.hostname \o <<NL, "ip", " ">> \o dev.ip \o Interfaces(dev)

\* The one answer set of a healthy device, used where many devices run.
DeviceReply(dev) ==
  Reply(RunningConfig(dev), CdpEnabledText, CdpEntries(1), VersionPE, MemoryText,
        PingUp, NtpSyncText)

\* The answer sets drawn for the single device task: the answers to the
\* commands of the function at pc vary, the others are those of DeviceReply.
TaskReplies(dev, pc) ==
  {Reply(RunningConfig(dev), cdp, CdpEntries(k), ver, mem, ping, ntp) :
     cdp \in IF pc = "check_cdp" THEN {CdpEnabledText, CdpDisabledText} ELSE {CdpEnabledText},
     k \in IF pc = "check_cdp" THEN 0..MaxPeers ELSE {1},
     ver \in IF pc = "check_ios" THEN {VersionPE, VersionNPE, VersionOther} ELSE {VersionPE},
     mem \in IF pc = "check_ios" THEN {MemoryText, MemoryOther} ELSE {MemoryText},
     ping \in IF pc = "check_ntp" THEN {PingUp, PingPartial, PingDown} ELSE {PingUp},
     ntp \in IF pc = "check_ntp" THEN {NtpSyncText, NtpUnsyncText} ELSE {NtpSyncText}}

\* The most session calls the statement at pc can make, in order.
MostCalls(pc) ==
  CASE pc = "connect_to_device" -> <<Call("ConnectHandler", <<>>)>>
    [] pc = "create_backup" -> <<Enable, ShowRun>>
    [] pc = "check_cdp" -> <<Enable, ShowCdp, ShowCdpEntry>>
    [] pc = "check_ios" -> <<Enable, ShowVersion, ShowMemory>>
    [] pc = "check_ntp" -> <<Enable, ClockTimezone, Ping, NtpServer, ShowNtpStatus>>
    [] pc = "disconnect_from_device" -> <<Call("disconnect", <<>>)>>
    [] OTHER -> <<>>

\* The fates of the file call of the statement at pc.
IoFates(pc) ==
  CASE pc = "create_backup" -> {"ok", "open_fails"}
    [] pc = "file_write" -> {"ok", "write_fails"}
    [] OTHER -> {"ok"}

\* The behaviours of a device during the statement at pc.
Behaviours(pc, replies) ==
  [failAt : 0..Len(MostCalls(pc)), reply : replies, io : IoFates(pc)]

\* ------------------------------------------------------------ state
VARIABLES
  device_list,   \* main: the rows read from devices.csv
  timestamp,     \* main: the run's timestamp
  main_pc,       \* main: "submit", "collect", "exited" (returned) or "raised"
  submitted,     \* main: number of apply_async calls made (line 259)
  collected,     \* main: number of process.get() calls that returned (line 262)
  pool,          \* the Pool: "running" or "terminated"
  taskqueue,     \* the Pool: submitted tasks no worker has taken yet
  worker,        \* the Pool: the task each worker process runs, 0 when idle
  task,          \* per device: the frame of its process_target call
  dirs,          \* file system: the directories that exist
  files,         \* file system: the files and their contents
  stdout,        \* the lines printed at line 237, in order
  log            \* the calls of the single device task, in order

vars == <<device_list, timestamp, main_pc, submitted, collected, pool, taskqueue,
          worker, task, dirs, files, stdout, log>>

\* Mutant of Workers: mp.Pool(len(device_list)), a process for every row.
WorkersPerDevice == 1..NumDevices

Workers == 1..POOL_SIZE
Devices == DOMAIN device_list

\* The frame of process_target before it runs: pc "new" is a device main has
\* not submitted yet.  exc is the exception that left the call, output the
\* local of create_backup while that call is inside its with block, process
\* the worker process that runs the call (0: none has taken it).
NewTask ==
  [pc |-> "new", connection |-> "none", backup_file_path |-> <<>>, output |-> <<>>,
   CDP |-> PyNone, IOS |-> PyNone, NTP |-> PyNone, exc |-> "none", process |-> 0]

Ended(t) == t.pc \in {"returned", "raised"}
Running(t) == t.pc \notin {"new", "queued", "returned", "raised", "killed"}

\* ------------------------------------------------------------ process_target
\* Mutant of Follows: the line is printed before the session is closed.
FollowsPrintBeforeClose(pc) ==
  CASE pc = "connect_to_device" -> "exists_root"
    [] pc = "get_backup_file_path" -> "create_backup"
    [] pc = "create_backup" -> "check_cdp"
    [] pc = "check_cdp" -> "check_ios"
    [] pc = "check_ios" -> "check_ntp"
    [] pc = "check_ntp" -> "print"
    [] pc = "print" -> "disconnect_from_device"
    [] pc = "disconnect_from_device" -> "returned"

\* Mutant of Follows: the session is closed before the NTP probe runs.
FollowsCloseBeforeNtp(pc) ==
  CASE pc = "connect_to_device" -> "exists_root"
    [] pc = "get_backup_file_path" -> "create_backup"
    [] pc = "create_backup" -> "check_cdp"
    [] pc = "check_cdp" -> "check_ios"
    [] pc = "check_ios" -> "disconnect_from_device"
    [] pc = "disconnect_from_device" -> "check_ntp"
    [] pc = "check_ntp" -> "print"
    [] pc = "print" -> "returned"

\* The statement that follows each statement of lines 226-237.  The four
\* os calls of get_backup_file_path are statements of their own, and so are
\* the two halves of create_backup, up to the open and from the write on.
Follows(pc) ==
  CASE pc = "connect_to_device" -> "exists_root"
    [] pc = "get_backup_file_path" -> "create_backup"
    [] pc = "create_backup" -> "check_cdp"
    [] pc = "check_cdp" -> "check_ios"
    [] pc = "check_ios" -> "check_ntp"
    [] pc = "check_ntp" -> "disconnect_from_device"
    [] pc = "disconnect_from_device" -> "print"
    [] pc = "print" -> "returned"

Outcome(t, ds, fs, ops, out) == [task |-> t, dirs |-> ds, files |-> fs, ops |-> ops, out |-> out]

\* An exception leaves process_target: no statement of it catches any.
Raise(t, fn, e) == [t EXCEPT !.pc = "raised", !.exc = e]

\* A probe or the backup returned r: an exception propagates, a value is
\* bound by the caller bind.
AfterCall(t, fn, r, bound) ==
  IF r.exc # "none" THEN Raise(t, fn, r.exc) ELSE [bound EXCEPT !.pc = Follows(fn)]

OsCall(fn, op, path, ok) == <<[fn |-> fn, op |-> op, arg |-> path, ok |-> ok, out |-> <<>>]>>

\* One statement of process_target(device, timestamp) for the frame t, with
\* the device behaving as b and the file system being ds, fs.
process_target(t, dev, ts, b, ds, fs) ==
  LET host == HostDir(dev.hostname)
      gbfp == "get_backup_file_path"
  IN
  CASE t.pc = "connect_to_device" ->
         \* line 226, lines 65-84
         IF b.failAt = 1
         THEN Outcome(Raise(t, t.pc, "NetmikoTimeoutException"), ds, fs,
                      OsCall(t.pc, "ConnectHandler", dev.ip, FALSE), <<>>)
         ELSE Outcome([t EXCEPT !.pc = Follows(t.pc), !.connection = "open"], ds, fs,
                      OsCall(t.pc, "ConnectHandler", dev.ip, TRUE), <<>>)
    [] t.pc = "exists_root" ->
         \* line 97
         Outcome([t EXCEPT !.pc = IF RootDir \in ds THEN "exists_host" ELSE "mkdir_root"],
                 ds, fs, OsCall(gbfp, "exists", RootDir, TRUE), <<>>)
    [] t.pc = "mkdir_root" ->
         \* line 98: os.mkdir raises FileExistsError on an existing directory
         IF RootDir \in ds
         THEN Outcome(Raise(t, gbfp, "FileExistsError"), ds, fs,
                      OsCall(gbfp, "mkdir", RootDir, FALSE), <<>>)
         ELSE Outcome([t EXCEPT !.pc = "exists_host"], ds \cup {RootDir}, fs,
                      OsCall(gbfp, "mkdir", RootDir, TRUE), <<>>)
    [] t.pc = "exists_host" ->
         \* line 101, and lines 105-111 when the directory is there
         IF host \in ds
         THEN Outcome([t EXCEPT !.pc = Follows(gbfp),
                                !.backup_file_path = BackupFilePath(dev.hostname, ts)],
                      ds, fs, OsCall(gbfp, "exists", host, TRUE), <<>>)
         ELSE Outcome([t EXCEPT !.pc = "mkdir_host"], ds, fs,
                      OsCall(gbfp, "exists", host, TRUE), <<>>)
    [] t.pc = "mkdir_host" ->
         \* line 102, lines 105-111
         IF host \in ds
         THEN Outcome(Raise(t, gbfp, "FileExistsError"), ds, fs,
                      OsCall(gbfp, "mkdir", host, FALSE), <<>>)
         ELSE Outcome([t EXCEPT !.pc = Follows(gbfp),
                                !.backup_file_path = BackupFilePath(dev.hostname, ts)],
                      ds \cup {host}, fs, OsCall(gbfp, "mkdir", host, TRUE), <<>>)
    [] t.pc = "create_backup" ->
         \* line 229, lines 117-123
         LET c == create_backup_open(b, t.backup_file_path, fs)
         IN Outcome(IF c.r.exc # "none" THEN Raise(t, t.pc, c.r.exc)
                    ELSE [t EXCEPT !.pc = "file_write", !.output = c.output],
                    ds, c.files, c.r.ops, <<>>)
    [] t.pc = "file_write" ->
         \* line 229, lines 124-135: the value returned is dropped
         LET c == create_backup_write(b, t.backup_file_path, fs, t.output)
         IN Outcome(AfterCall([t EXCEPT !.output = <<>>], "create_backup", c.r,
                              [t EXCEPT !.output = <<>>]),
                    ds, c.files, c.r.ops, <<>>)
    [] t.pc = "check_cdp" ->
         \* line 230
         LET r == check_cdp(b)
         IN Outcome(AfterCall(t, t.pc, r, [t EXCEPT !.CDP = r.ret]), ds, fs, r.ops, <<>>)
    [] t.pc = "check_ios" ->
         \* line 232
         LET r == check_ios(b)
         IN Outcome(AfterCall(t, t.pc, r, [t EXCEPT !.IOS = r.ret]), ds, fs, r.ops, <<>>)
    [] t.pc = "check_ntp" ->
         \* line 234
         LET r == check_ntp(b)
         IN Outcome(AfterCall(t, t.pc, r, [t EXCEPT !.NTP = r.ret]), ds, fs, r.ops, <<>>)
    [] t.pc = "disconnect_from_device" ->
         \* line 236, lines 86-90
         IF b.failAt = 1
         THEN Outcome(Raise(t, t.pc, "OSError"), ds, fs,
                      OsCall(t.pc, "disconnect", <<>>, FALSE), <<>>)
         ELSE Outcome([t EXCEPT !.pc = Follows(t.pc), !.connection = "closed"], ds, fs,
                      OsCall(t.pc, "disconnect", <<>>, TRUE), <<>>)
    [] t.pc = "print" ->
         \* line 237
         LET bar == PyStr(<<"|">>)
             line == PyAdd(PyAdd(PyAdd(PyAdd(PyAdd(PyAdd(PyStr(dev.hostname), bar),
                       t.IOS), bar), t.CDP), bar), t.NTP)
         IN IF line.type = "TypeError"
            THEN Outcome(Raise(t, t.pc, "TypeError"), ds, fs, <<>>, <<>>)
            ELSE Outcome([t EXCEPT !.pc = Follows(t.pc)], ds, fs,
                         OsCall(t.pc, "print", line.val, TRUE), <<line.val>>)

\* The frames and file systems that process_target can reach from the frame t
\* by running statements until the call ends or the next statement is one of
\* waits.
RECURSIVE RunBlock(_, _, _, _, _, _)
RunBlock(t, dev, ts, ds, fs, waits) ==
  LET outs == {[process_target(t, dev, ts, b, ds, fs) EXCEPT !.ops = <<>>] :
                 b \in Behaviours(t.pc, {DeviceReply(dev)})}
  IN UNION {IF Ended(o.task) \/ o.task.pc \in waits THEN {o}
            ELSE {[r EXCEPT !.out = o.out \o r.out] :
                    r \in RunBlock(o.task, dev, ts, o.dirs, o.files, waits)} : o \in outs}

\* Where a task of the pool is observed between two steps: with the session
\* open and the backup path derived (lines 226-228 done), with the backup,
\* the probes and the close done (lines 229-236), and ended (line 237).
TaskBlocks == {"create_backup", "print"}

\* The tasks of the run that an exception has left.
Faults == Cardinality({d \in Devices : task[d].pc = "raised"})

\* ------------------------------------------------------------ the pool and main
NoFiles == [p \in {} |-> <<>>]

Init ==
  /\ device_list \in Inventories
  /\ timestamp \in Timestamps
  /\ main_pc = "submit"
  /\ submitted = 0
  /\ collected = 0
  /\ pool = "running"
  /\ taskqueue = <<>>
  /\ worker = [w \in Workers |-> 0]
  /\ task = [d \in DOMAIN device_list |-> NewTask]
  /\ dirs = {}
  /\ files = NoFiles
  /\ stdout = <<>>
  /\ log = <<>>

\* line 259: pool.apply_async(process_target, args=(device, timestamp)) for
\* the next row; after the last row the loop of line 261 starts.
Submit ==
  /\ main_pc = "submit"
  /\ submitted < Len(device_list)
  /\ submitted' = submitted + 1
  /\ taskqueue' = Append(taskqueue, submitted + 1)
  /\ task' = [task EXCEPT ![submitted + 1].pc = "queued"]
  /\ main_pc' = IF submitted + 1 = Len(device_list) THEN "collect" ELSE "submit"
  /\ UNCHANGED <<device_list, timestamp, collected, pool, worker, dirs, files, stdout, log>>

\* An idle worker process takes the oldest task of the queue and calls
\* process_target.  The worker processes run the same loop and nothing
\* tells them apart, so the idle worker of the lowest index stands for
\* whichever idle worker gets the task.
Take(w) ==
  /\ pool = "running"
  /\ worker[w] = 0
  /\ \A v \in Workers : v < w => worker[v] # 0
  /\ taskqueue # <<>>
  /\ worker' = [worker EXCEPT ![w] = Head(taskqueue)]
  /\ taskqueue' = Tail(taskqueue)
  /\ task' = [task EXCEPT ![Head(taskqueue)].pc = "connect_to_device",
                          ![Head(taskqueue)].process = w]
  /\ UNCHANGED <<device_list, timestamp, main_pc, submitted, collected, pool, dirs,
                 files, stdout, log>>

\* A worker process runs its task up to and including the next visible
\* statement; when the call ends, by return or by exception, the worker hands
\* the outcome to the task's AsyncResult and is idle again.
Step(w) ==
  /\ pool = "running"
  /\ worker[w] # 0
  /\ LET d == worker[w] IN
     \E o \in RunBlock(task[d], device_list[d], timestamp, dirs, files, TaskBlocks) :
       /\ o.task.pc = "raised" => Faults < MaxFaults
       /\ task' = [task EXCEPT ![d] = o.task]
       /\ dirs' = o.dirs
       /\ files' = o.files
       /\ stdout' = stdout \o o.out
       /\ worker' = IF Ended(o.task) THEN [worker EXCEPT ![w] = 0] ELSE worker
  /\ UNCHANGED <<device_list, timestamp, main_pc, submitted, collected, pool, taskqueue, log>>

\* Pool.terminate(): the worker processes are stopped at once, whatever they
\* run; queued tasks are never started.
Terminated(tasks) ==
  [d \in Devices |-> IF Running(tasks[d]) THEN [tasks[d] EXCEPT !.pc = "killed"] ELSE tasks[d]]

\* line 262: process.get() of the next AsyncResult, whose task returned.
\* After the last one the with block of line 256 is left, which terminates
\* the pool, and main returns.
GetReturns ==
  /\ main_pc = "collect"
  /\ collected < Len(device_list)
  /\ task[collected + 1].pc = "returned"
  /\ collected' = collected + 1
  /\ IF collected + 1 = Len(device_list)
     THEN /\ main_pc' = "exited"
          /\ pool' = "terminated"
          /\ task' = Terminated(task)
          /\ worker' = [w \in Workers |-> 0]
     ELSE UNCHANGED <<main_pc, pool, task, worker>>
  /\ UNCHANGED <<device_list, timestamp, submitted, taskqueue, dirs, files, stdout, log>>

\* line 262: process.get() of an AsyncResult whose task raised re-raises the
\* exception in main; it leaves the with block, which terminates the pool,
\* and then main.
GetRaises ==
  /\ main_pc = "collect"
  /\ collected < Len(device_list)
  /\ task[collected + 1].pc = "raised"
  /\ main_pc' = "raised"
  /\ pool' = "terminated"
  /\ task' = Terminated(task)
  /\ worker' = [w \in Workers |-> 0]
  /\ UNCHANGED <<device_list, timestamp, submitted, collected, taskqueue, dirs, files,
                 stdout, log>>

Next ==
  \/ Submit
  \/ \E w \in Workers : Take(w)
  \/ \E w \in Workers : Step(w)
  \/ GetReturns
  \/ GetRaises

Spec == Init /\ [][Next]_vars

\* ------------------------------------------------------------ a healthy run
\* A run in which no call on a session and no call on a backup file fails,
\* with every call on the shared file system a step of its own.

\* A device that answers every call.
Healthy(dev) == [failAt |-> 0, reply |-> DeviceReply(dev), io |-> "ok"]

\* The frame and file system (a set of one) that process_target reaches from
\* the frame t on a healthy device by running statements until the call ends
\* or the next statement is one of waits.
RECURSIVE RunHealthy(_, _, _, _, _, _)
RunHealthy(t, dev, ts, ds, fs, waits) ==
  UNION {IF Ended(o.task) \/ o.task.pc \in waits THEN {o}
         ELSE {[r EXCEPT !.out = o.out \o r.out] :
                 r \in RunHealthy(o.task, dev, ts, o.dirs, o.files, waits)} :
         o \in {[process_target(t, dev, ts, Healthy(dev), ds, fs) EXCEPT !.ops = <<>>]}}

\* The statements before which a task of the healthy run is observed: the
\* calls on the file system and on stdout, which the worker processes share
\* (lines 97, 98, 101, 102, 123, 124, 237).  The calls on a task's own session
\* run with the file system call they follow.
SharedCalls ==
  {"exists_root", "mkdir_root", "exists_host", "mkdir_host", "create_backup",
   "file_write", "print"}

\* A worker process runs its task up to the next call on the file system or
\* on stdout.
StepHealthy(w) ==
  /\ pool = "running"
  /\ worker[w] # 0
  /\ LET d == worker[w] IN
     \E o \in RunHealthy(task[d], device_list[d], timestamp, dirs, files, SharedCalls) :
       /\ task' = [task EXCEPT ![d] = o.task]
       /\ dirs' = o.dirs
       /\ files' = o.files
       /\ stdout' = stdout \o o.out
       /\ worker' = IF Ended(o.task) THEN [worker EXCEPT ![w] = 0] ELSE worker
  /\ UNCHANGED <<device_list, timestamp, main_pc, submitted, collected, pool, taskqueue, log>>

NextHealthy ==
  \/ Submit
  \/ \E w \in Workers : Take(w)
  \/ \E w \in Workers : StepHealthy(w)
  \/ GetReturns
  \/ GetRaises

\* The operating system runs every worker process and the main process that
\* can run: a step that stays possible is taken.  For the step of a worker
\* the weak fairness is written out, its step being possible exactly while
\* the pool runs and the worker holds a task.
FairHealthy ==
  /\ WF_vars(Submit)
  /\ WF_vars(GetReturns)
  /\ WF_vars(GetRaises)
  /\ \A w \in Workers : WF_vars(Take(w))
  /\ \A w \in Workers :
       \/ []<>~(pool = "running" /\ worker[w] # 0)
       \/ []<><<StepHealthy(w)>>_vars

SpecHealthy == Init /\ [][NextHealthy]_vars /\ FairHealthy

\* ------------------------------------------------------------ get_backup_file_path alone
\* get_backup_file_path(hostname, timestamp) called again and again by one
\* process, on a file system that earlier runs may have left directories in.

\* The timestamps of runs on two days.
PathTimestamps == {<<"20261101">>, <<"20261102">>}

\* The directories an earlier run can have left: a hostname directory is
\* never there without the backup root.
LeftDirs(hostnames) ==
  {ds \in SUBSET ({RootDir} \cup {HostDir(h) : h \in hostnames}) :
     ds # {} => RootDir \in ds}

\* lines 92-111: the call from its first statement to its return or to the
\* exception that leaves it, on the directories ds.
get_backup_file_path(hostname, ts, ds) ==
  RunHealthy([NewTask EXCEPT !.pc = "exists_root", !.connection = "open"],
             Device(1, hostname), ts, ds, NoFiles, {"create_backup"})

InitPath ==
  /\ device_list = UniqueInventory(NumHostnames)
  /\ timestamp \in Timestamps
  /\ main_pc = "exited"
  /\ submitted = 0
  /\ collected = 0
  /\ pool = "terminated"
  /\ taskqueue = <<>>
  /\ worker = [w \in Workers |-> 0]
  /\ task = [d \in DOMAIN device_list |-> NewTask]
  /\ dirs \in LeftDirs({device_list[d].hostname : d \in DOMAIN device_list})
  /\ files = NoFiles
  /\ stdout = <<>>
  /\ log = <<>>

\* One call, logged with its arguments, the path it returned and the
\* directories it made.
CallPath ==
  /\ Len(log) < MaxCalls
  /\ \E d \in Devices, ts \in PathTimestamps :
       \E o \in get_backup_file_path(device_list[d].hostname, ts, dirs) :
         /\ dirs' = o.dirs
         /\ log' = Append(log, [fn |-> "get_backup_file_path",
                                 hostname |-> device_list[d].hostname, timestamp |-> ts,
                                 ok |-> o.task.exc = "none",
                                 out |-> o.task.backup_file_path,
                                 made |-> o.dirs \ dirs])
  /\ UNCHANGED <<device_list, timestamp, main_pc, submitted, collected, pool, taskqueue,
                 worker, task, files, stdout>>

NextPath == CallPath

SpecPath == InitPath /\ [][NextPath]_vars

\* ------------------------------------------------------------ one device task
\* process_target(device_list[1], timestamp) called once, on a file system
\* that earlier runs may have left directories in; every call is logged.
InitTask ==
  /\ device_list = UniqueInventory(1)
  /\ timestamp \in Timestamps
  /\ main_pc = "exited"
  /\ submitted = 0
  /\ collected = 0
  /\ pool = "terminated"
  /\ taskqueue = <<>>
  /\ worker = [w \in Workers |-> 0]
  /\ task = [d \in DOMAIN device_list |-> [NewTask EXCEPT !.pc = "connect_to_device"]]
  /\ dirs \in {{}, {RootDir}, {RootDir, HostDir(device_list[1].hostname)}}
  /\ files = NoFiles
  /\ stdout = <<>>
  /\ log = <<>>

StepTask ==
  /\ Running(task[1])
  /\ \E b \in Behaviours(task[1].pc, TaskReplies(device_list[1], task[1].pc)) :
       LET o == process_target(task[1], device_list[1], timestamp, b, dirs, files) IN
         /\ task' = [task EXCEPT ![1] = o.task]
         /\ dirs' = o.dirs
         /\ files' = o.files
         /\ stdout' = stdout \o o.out
         /\ log' = log \o o.ops
  /\ UNCHANGED <<device_list, timestamp, main_pc, submitted, collected, pool, taskqueue,
                 worker>>

NextTask == StepTask

SpecTask == InitTask /\ [][NextTask]_vars

\* ------------------------------------------------------------ properties
\* The calls of the log made by the function fn.
CallsOf(fn) == {i \in DOMAIN log : log[i].fn = fn}
SessionOps == {"enable", "send_command", "send_config_set"}
Probes == {"check_cdp", "check_ios", "check_ntp"}

\* The lines of stdout that start with the hostname of device d and a bar.
LinesOf(d) ==
  LET h == device_list[d].hostname \o <<"|">>
  IN {i \in DOMAIN stdout : Len(stdout[i]) >= Len(h) /\ SubSeq(stdout[i], 1, Len(h)) = h}

\* The session of the logged task was opened.
Opened == \E i \in DOMAIN log : log[i].op = "ConnectHandler" /\ log[i].ok

\* C1: a device task whose session open succeeded calls disconnect before it
\* ends, whichever of the backup and the probes fail.
C1_CloseAlwaysCalled ==
  \A d \in Devices :
    (Ended(task[d]) /\ Opened) => \E j \in DOMAIN log : log[j].op = "disconnect"

\* C2: a device task whose session was opened has printed exactly one line
\* hostname|iosInfo|cdpStatus|ntpStatus when it ends, also when the backup or
\* a probe failed.
C2_OneResultLine ==
  \A d \in Devices :
    (Ended(task[d]) /\ task[d].connection # "none") => Cardinality(LinesOf(d)) = 1

\* C3: no failure of a device task reaches main: process.get() never raises
\* in main, and no task of another device is left unfinished because of it.
C3_FailuresStayInTask ==
  /\ main_pc # "raised"
  /\ \A d \in Devices : pool = "terminated" => Ended(task[d])

\* C4: at most POOL_SIZE device tasks have started and not yet finished.
C4_AtMostPoolSizeRunning ==
  Cardinality({d \in Devices : Running(task[d])}) <= POOL_SIZE

\* C4 witness: POOL_SIZE tasks run while another submitted task waits.
C4_Witness ==
  /\ Cardinality({d \in Devices : Running(task[d])}) = POOL_SIZE
  /\ taskqueue # <<>>

\* C5: when main has left the pool, every submitted device task has finished:
\* none is still queued or running, none was terminated unfinished.
C5_ExitAfterAllFinished ==
  main_pc \in {"exited", "raised"} => \A d \in Devices : Ended(task[d])

\* C6: a probe in which a session call raised has returned False to
\* process_target, which bound it to the probe's variable.
C6_ProbeReturnsFalse ==
  \A i \in DOMAIN log :
    (log[i].fn \in Probes /\ ~log[i].ok) =>
      /\ log[i].fn = "check_cdp" => task[1].CDP = PyFalse
      /\ log[i].fn = "check_ios" => task[1].IOS = PyFalse
      /\ log[i].fn = "check_ntp" => task[1].NTP = PyFalse

\* C7: a device task in which fetching the configuration or writing the file
\* failed has, when it ends, run the three probes, closed the session and
\* printed the device's line.
C7_BackupFailureKeepsGoing ==
  (Ended(task[1]) /\ \E i \in CallsOf("create_backup") : ~log[i].ok) =>
    /\ \A fn \in Probes : CallsOf(fn) # {}
    /\ CallsOf("disconnect_from_device") # {}
    /\ LinesOf(1) # {}

\* The steps of a device task in the order of the specification.
StepOrder ==
  <<"connect_to_device", "get_backup_file_path", "create_backup", "check_cdp",
    "check_ios", "check_ntp", "disconnect_from_device", "print">>
Rank(fn) == CHOOSE r \in DOMAIN StepOrder : StepOrder[r] = fn

\* C8: the calls of a device task come in the order open, backup path, backup,
\* CDP probe, IOS probe, NTP probe, close, print: no call of a step precedes a
\* call of an earlier step, no step is skipped, and every command on the
\* session comes after a successful open and before any close.
C8_FixedStepOrder ==
  /\ \A i, j \in DOMAIN log : i < j => Rank(log[i].fn) <= Rank(log[j].fn)
  /\ \A i \in DOMAIN log : \A r \in 1..(Rank(log[i].fn) - 1) :
       \E j \in 1..(i - 1) : Rank(log[j].fn) = r
  /\ \A i \in DOMAIN log : log[i].op \in SessionOps =>
       /\ \E j \in 1..(i - 1) : log[j].op = "ConnectHandler" /\ log[j].ok
       /\ \A j \in 1..(i - 1) : log[j].op # "disconnect"

\* C8 witness: a task that went through all eight steps and returned.
C8_Witness ==
  /\ task[1].pc = "returned"
  /\ {log[i].fn : i \in DOMAIN log} = {StepOrder[r] : r \in DOMAIN StepOrder}

\* C9: a failed open aborts the rest for that device, and for that device
\* only: its frame never got a backup path, a probe result or a closed
\* session, and no task of another device is left unfinished by a terminated
\* pool.
C9_FailedOpenAbortsThatDeviceOnly ==
  \A d \in Devices : task[d].exc = "NetmikoTimeoutException" =>
    /\ task[d].connection = "none"
    /\ task[d].backup_file_path = <<>>
    /\ task[d].CDP = PyNone /\ task[d].IOS = PyNone /\ task[d].NTP = PyNone
    /\ \A e \in Devices \ {d} : pool = "terminated" => Ended(task[e])

IsPush(i, c) == log[i].fn = "check_ntp" /\ log[i].op = c.op /\ log[i].arg = c.arg

\* C10: in check_ntp every call but enable comes after the timezone push; the
\* NTP server line is pushed exactly when the ping returned an output with "!"
\* in it, after that ping and before the status query.
C10_NtpPushOrder ==
  /\ \A i \in CallsOf("check_ntp") :
       (log[i].op # "enable" /\ ~IsPush(i, ClockTimezone)) =>
         \E j \in 1..(i - 1) : IsPush(j, ClockTimezone)
  /\ \A i \in CallsOf("check_ntp") : IsPush(i, NtpServer) =>
       /\ \E j \in 1..(i - 1) :
            IsPush(j, Ping) /\ log[j].ok /\ Contains(log[j].out, <<"!">>)
       /\ \A j \in 1..(i - 1) : ~IsPush(j, ShowNtpStatus)
  /\ \A j \in CallsOf("check_ntp") :
       (IsPush(j, Ping) /\ log[j].ok /\ Contains(log[j].out, <<"!">>)) =>
         \E i \in (j + 1)..Len(log) : IsPush(i, NtpServer)

\* C10 witness: the ping succeeded, the NTP server line was pushed and the
\* status was queried.
C10_Witness ==
  /\ \E i \in CallsOf("check_ntp") : IsPush(i, NtpServer) /\ log[i].ok
  /\ \E i \in CallsOf("check_ntp") : IsPush(i, ShowNtpStatus) /\ log[i].ok


\* C11: in check_ntp the status query follows the ping whether or not its
\* output has "!" in it (directly, or after the NTP server push), and a
\* probe that returned has returned "NTP in Sync" exactly when the output of
\* the status query contains "Clock is synchronized", "NTP not Sync" otherwise.
C11_NtpStatusDecides ==
  /\ \A i \in CallsOf("check_ntp") : (IsPush(i, Ping) /\ log[i].ok) =>
       IF Contains(log[i].out, <<"!">>)
       THEN /\ i + 1 <= Len(log) /\ IsPush(i + 1, NtpServer)
            /\ log[i + 1].ok => (i + 2 <= Len(log) /\ IsPush(i + 2, ShowNtpStatus))
       ELSE i + 1 <= Len(log) /\ IsPush(i + 1, ShowNtpStatus)
  /\ task[1].NTP # PyNone =>
       \E i \in CallsOf("check_ntp") :
         /\ IsPush(i, ShowNtpStatus) /\ log[i].ok
         /\ task[1].NTP =
              IF Contains(log[i].out, <<"Clock", " ", "is", " ", "synchronized">>)
              THEN PyStr(<<"NTP in Sync">>) ELSE PyStr(<<"NTP not Sync">>)

\* C11 witness: the server did not answer the ping, the status was queried
\* all the same and read as synchronized.
C11_Witness ==
  /\ \E i \in CallsOf("check_ntp") :
       IsPush(i, Ping) /\ log[i].ok /\ ~Contains(log[i].out, <<"!">>)
  /\ task[1].NTP = PyStr(<<"NTP in Sync">>)


\* The lines of a text: a line starts at the first atom and after every
\* newline, and runs up to the next newline or the end of the text.
LineStarts(s) == {1} \cup {k + 1 : k \in {i \in 1..Len(s) : s[i] = NL}}
LineAt(s, k) ==
  LET stops == {j \in k..Len(s) : s[j] = NL}
      stop == IF stops = {} THEN Len(s) + 1 ELSE CHOOSE j \in stops : \A m \in stops : j <= m
  IN SubSeq(s, k, stop - 1)
MarkedLines(s, marker) ==
  Cardinality({k \in LineStarts(s) : Contains(LineAt(s, k), marker)})

IsCdp(i, c) == log[i].fn = "check_cdp" /\ log[i].op = c.op /\ log[i].arg = c.arg

\* C12: when the output of "show cdp" contains "not enabled", check_cdp sends
\* no "show cdp entry *" and a probe that returned has returned
\* "CDP OFF, 0 peers"; otherwise a probe that returned has sent the detail
\* command and returned "CDP ON, n peers", n being the number of lines of
\* the detail output that contain "Device ID: ".
C12_CdpResult ==
  /\ \A i \in CallsOf("check_cdp") :
       (IsCdp(i, ShowCdp) /\ log[i].ok /\ Contains(log[i].out, <<"not", " ", "enabled">>)) =>
         /\ \A j \in CallsOf("check_cdp") : ~IsCdp(j, ShowCdpEntry)
         /\ task[1].CDP \in {PyNone, PyStr(<<"CDP OFF, 0 peers">>)}
  /\ task[1].CDP # PyNone =>
       \E i \in CallsOf("check_cdp") :
         /\ IsCdp(i, ShowCdp) /\ log[i].ok
         /\ ~Contains(log[i].out, <<"not", " ", "enabled">>) =>
              \E j \in CallsOf("check_cdp") :
                /\ j > i /\ IsCdp(j, ShowCdpEntry) /\ log[j].ok
                /\ task[1].CDP =
                     PyStr(<<"CDP ON, ",
                             ToString(MarkedLines(log[j].out, <<"Device ID:", " ">>)),
                             " peers">>)

\* C12 witness: CDP is on and the detail output has three lines with
\* "Device ID: " among lines without it.
C12_Witness ==
  /\ task[1].CDP = PyStr(<<"CDP ON, ", "3", " peers">>)
  /\ \E j \in CallsOf("check_cdp") :
       IsCdp(j, ShowCdpEntry) /\ Cardinality(LineStarts(log[j].out)) > 3


\* C13: no call of get_backup_file_path fails because the directory it is
\* about to create already exists, however the existence checks and the
\* creates of the worker processes interleave: no task is left by
\* FileExistsError, and a task that went past the call holds its path.
C13_DirectoryCreationIsSafe ==
  \A d \in Devices :
    /\ task[d].exc # "FileExistsError"
    /\ (task[d].connection # "none" /\ Ended(task[d])) =>
         task[d].backup_file_path = BackupFilePath(device_list[d].hostname, timestamp)

\* C15: called by one process, get_backup_file_path never fails and returns
\* <root>/<hostname>/<hostname>-<timestamp>.txt; a call makes no directory but
\* <root> and <root>/<hostname>, and a call with the arguments of an earlier
\* call returns the same path and makes no directory.
C15_BackupPathIdempotent ==
  /\ \A i \in DOMAIN log :
       /\ log[i].ok
       /\ log[i].out = <<"CONFIGURATIONS", "/">> \o log[i].hostname \o <<"/">>
                          \o log[i].hostname \o <<"-">> \o log[i].timestamp \o <<".txt">>
       /\ log[i].made \subseteq
            {<<"CONFIGURATIONS">>, <<"CONFIGURATIONS", "/">> \o log[i].hostname}
  /\ \A i, j \in DOMAIN log :
       (i < j /\ log[i].hostname = log[j].hostname /\ log[i].timestamp = log[j].timestamp) =>
         log[j].out = log[i].out /\ log[j].made = {}

\* C15 witness: a first call made both directories, and the same call made
\* again returned the same path and made nothing.
C15_Witness ==
  \E i, j \in DOMAIN log :
    /\ i < j /\ log[i].hostname = log[j].hostname /\ log[i].timestamp = log[j].timestamp
    /\ Cardinality(log[i].made) = 2
    /\ log[j].ok /\ log[j].made = {} /\ log[j].out = log[i].out

\* Two tasks hold the same backup path exactly when their rows have the same
\* hostname.
SamePathIffSameHostname ==
  \A d, e \in Devices :
    (d # e /\ task[d].backup_file_path # <<>> /\ task[e].backup_file_path # <<>>) =>
      (task[d].backup_file_path = task[e].backup_file_path
         <=> device_list[d].hostname = device_list[e].hostname)

\* Every row got its task, duplicated hostname or not: when main has returned, the task
\* of every row has returned with its backup path derived.
NoRowDeduplicated ==
  main_pc = "exited" =>
    \A d \in Devices : task[d].pc = "returned" /\ task[d].backup_file_path # <<>>

\* The task of device d completes the write of its backup in this step.
Writes(d) ==
  task[d].pc = "file_write" /\ task'[d].pc \notin {"file_write", "killed", "raised"}

\* C14: two device tasks write the same path exactly when their rows have
\* the same hostname, no row is dropped for a duplicated hostname, and a write
\* leaves in the file the configuration of the device that wrote it, whatever
\* another task wrote there before: what remains is what was written last.
C14_SamePathOnlyForSameHostname ==
  [][/\ SamePathIffSameHostname'
     /\ NoRowDeduplicated'
     /\ \A d \in Devices :
          Writes(d) => files'[task[d].backup_file_path] = RunningConfig(device_list[d])]_vars

\* C16: every row gets one task, run once by one worker process: no task is
\* held by two workers, a running task stays on the worker that took it, a
\* task that ended is not run again, and when main has ended a worker has
\* taken the task of every row.
C16_EachDeviceOnce ==
  [][/\ (\A d \in Devices : Cardinality({w \in Workers : worker[w] = d}) <= 1)'
     /\ (\A d \in Devices : Running(task[d]) => worker[task[d].process] = d)'
     /\ \A d \in Devices : task[d].process # 0 => task'[d].process = task[d].process
     /\ \A d \in Devices : Ended(task[d]) => task'[d] = task[d]
     /\ (main_pc \in {"exited", "raised"} =>
           \A d \in Devices : task[d].process # 0)']_vars

\* The sessions that the worker process w has opened and not closed.
OpenSessions(w) ==
  {d \in Devices : task[d].process = w /\ task[d].connection = "open"}

\* C17: while the pool runs, no worker process has more than one session
\* open, and a session that is open or closed belongs to a task that a worker
\* took: the process that opened it.
C17_OneSessionPerWorker ==
  pool = "running" =>
    /\ \A w \in Workers : Cardinality(OpenSessions(w)) <= 1
    /\ \A d \in Devices : task[d].connection # "none" => task[d].process \in Workers

\* The task of device d returns in this step.
Completes(d) == task[d].pc # "returned" /\ task'[d].pc = "returned"

\* C18: a line is on stdout exactly for the tasks that have returned,
\* collected by main or not, and the lines come in the order in which the
\* tasks return: stdout grows only by the line of the task that returns in
\* the step, put last.
C18_EmittedAtCompletion ==
  [][/\ (\A i \in DOMAIN stdout :
           \E d \in Devices : task[d].pc = "returned" /\ i \in LinesOf(d))'
     /\ (\A d \in Devices : task[d].pc = "returned" => LinesOf(d) # {})'
     /\ \A d \in Devices : Completes(d) =>
          /\ Len(stdout') = Len(stdout) + 1
          /\ SubSeq(stdout', 1, Len(stdout)) = stdout
          /\ Len(stdout') \in LinesOf(d)'
     /\ stdout' # stdout => \E d \in Devices : Completes(d)]_vars

\* C18 witness: the line of a row is on stdout while the task of an earlier
\* row is still running and main, which waits on the rows in order, has not
\* collected either.
C18_Witness ==
  \E d, e \in Devices :
    /\ d < e /\ collected < d
    /\ Running(task[d])
    /\ task[e].pc = "returned" /\ LinesOf(e) # {}
    /\ device_list[d].hostname # device_list[e].hostname

\* C19: every command and every configuration push on the session comes
\* after a call of enable that the same function made and that returned, and
\* the first call on the session that create_backup and each probe make is
\* enable.
C19_EnableBeforeCommands ==
  /\ \A i \in DOMAIN log : log[i].op \in {"send_command", "send_config_set"} =>
       \E j \in 1..(i - 1) : log[j].fn = log[i].fn /\ log[j].op = "enable" /\ log[j].ok
  /\ \A fn \in {"create_backup"} \cup Probes : CallsOf(fn) # {} =>
       LET first == CHOOSE i \in CallsOf(fn) : \A j \in CallsOf(fn) : i <= j
       IN log[first].op = "enable"

\* C19 witness: the backup and the three probes all sent their commands, and
\* check_ntp both its pushes.
C19_Witness ==
  /\ \A fn \in {"create_backup"} \cup Probes :
       \E i \in CallsOf(fn) : log[i].op = "send_command" /\ log[i].ok
  /\ Cardinality({i \in CallsOf("check_ntp") : log[i].op = "send_config_set" /\ log[i].ok}) = 2

\* C20: when no call on a session fails and every process that can run does,
\* the run ends with main returned, the pool left and a result line printed
\* for every one of the N devices.
C20_HealthyRunTerminates ==
  <>(/\ main_pc = "exited"
     /\ Len(stdout) = Len(device_list)
     /\ \A d \in Devices : LinesOf(d) # {})

====
